---- MODULE Spec2Model ----
(***************************************************************************)
(* Lifting matrices from SL_n(Z/NZ) to SL_n(Z):                            *)
(* src/src/sage/modular/local_comp/liftings.py.                            *)
(*                                                                         *)
(* A 2x2 matrix is the 4-tuple <<a, b, c, d>> = [[a, b], [c, d]], as in    *)
(* the source; an n x n matrix is a tuple of n rows, each a tuple of n     *)
(* integers.  Every function of the module is pure: an action draws the    *)
(* arguments of one call and records the call and what it returned or      *)
(* raised.                                                                 *)
(***************************************************************************)
EXTENDS Integers, Sequences, FiniteSets

VARIABLES
    call,    \* the function called and its arguments
    ret,     \* what the latest finished invocation returned or raised
    arg,     \* lift_for_SL: the matrix of the invocation about to run
    frames   \* lift_for_SL: the invocations awaiting their recursive call

vars == <<call, ret, arg, frames>>

(* ------------------------------ bounds --------------------------------- *)

\* matrix entries of the 2x2 family are drawn from -1 .. MaxEntry
MaxEntry == 3
\* moduli m, n (and primes p) are drawn from 1 .. MaxMod
MaxMod == 5
\* exponents u are drawn from 0 .. MaxExp
MaxExp == 2

\* lift_for_SL is called on matrices of dimension 2 .. MaxDim
MaxDim == 3
\* whose free entries are drawn from -1 .. MaxSLEntry
MaxSLEntry == 1
\* modulo N in 1 .. MaxSLMod
MaxSLMod == 3

Entries == (0 - 1)..MaxEntry
SLEntries == (0 - 1)..MaxSLEntry
Moduli == 1..MaxMod
Exponents == 0..MaxExp
Gs == {<<a, b, c, d>> : a \in Entries, b \in Entries, c \in Entries, d \in Entries}

(* --------------------------- integer helpers --------------------------- *)

Abs(x) == IF x < 0 THEN 0 - x ELSE x

RECURSIVE gcd(_, _)
gcd(a, b) == IF b = 0 THEN Abs(a) ELSE gcd(b, a % Abs(b))

lcm(m, n) == (m * n) \div gcd(m, n)

RECURSIVE Pow(_, _)
Pow(p, u) == IF u = 0 THEN 1 ELSE p * Pow(p, u - 1)

IsPrime(p) == p >= 2 /\ \A k \in 2..(p - 1) : p % k # 0

Primes == {p \in Moduli : IsPrime(p)}

(* ------------------------- results of a call --------------------------- *)

\* a call returns a value or raises; both are one record shape
Return(v) == [kind |-> "return", exc |-> "", msg |-> "", val |-> v]
Raise(e, m, v) == [kind |-> "raise", exc |-> e, msg |-> m, val |-> v]
NoRet == [kind |-> "none", exc |-> "", msg |-> "", val |-> <<>>]
NoCall == [fn |-> "", g |-> <<>>, m |-> 0, n |-> 0, p |-> 0, u |-> 0]

(* ----------------------- the arithmetic primitives ---------------------- *)

\* sage.arith xgcd on machine integers: <<g, s, t>> with s*a + t*b = g >= 0
RECURSIVE xgcd_loop(_, _, _, _, _, _)
xgcd_loop(a, b, p, q, r, s) ==
    IF b = 0 THEN <<a, p, q>>
    ELSE LET quot == a \div b
         IN  xgcd_loop(b, a % b, r, s, p - quot * r, q - quot * s)

xgcd(a, b) ==
    IF a = 0 THEN <<Abs(b), 0, IF b < 0 THEN 0 - 1 ELSE 1>>
    ELSE IF b = 0 THEN <<Abs(a), IF a < 0 THEN 0 - 1 ELSE 1, 0>>
    ELSE LET psign == IF a < 0 THEN 0 - 1 ELSE 1
             qsign == IF b < 0 THEN 0 - 1 ELSE 1
             l == xgcd_loop(Abs(a), Abs(b), 1, 0, 0, 1)
         IN  <<l[1], l[2] * psign, l[3] * qsign>>

\* the residues modulo lcm(m, n) that are a modulo m and b modulo n:
\* one when m and n are coprime, none or one otherwise
crt_solutions(a, b, m, n) ==
    {x \in 0..(lcm(m, n) - 1) : (x - a) % m = 0 /\ (x - b) % n = 0}

\* crt(a, b, m, n) where a solution exists
crt(a, b, m, n) == CHOOSE x \in crt_solutions(a, b, m, n) : TRUE

inverse_mod(a, p) == CHOOSE x \in 0..(p - 1) : (a * x) % p = 1 % p

\* the part of m that is prime to d
RECURSIVE prime_to_part(_, _)
prime_to_part(m, d) ==
    IF gcd(m, d) = 1 THEN m ELSE prime_to_part(m \div gcd(m, d), d)

\* lift_to_sl2z(c, d, N): a matrix of determinant 1 whose bottom row is
\* congruent to (c, d) modulo N, and equal to it when gcd(c, d) = 1
lift_to_sl2z(c, d, N) ==
    IF c = 0 /\ d = 0
    THEN Raise("AttributeError", "Element not in P1", <<c, d>>)
    ELSE IF xgcd(c, d)[1] = 1
    THEN Return(<<xgcd(c, d)[3], 0 - xgcd(c, d)[2], c, d>>)
    ELSE LET c1 == IF c = 0 THEN c + N ELSE c
             d1 == IF d = 0 THEN d + N ELSE d
             m == prime_to_part(prime_to_part(c1, d1), N)
             d2 == d1 + N * m
             e == xgcd(c1, d2)
         IN  IF e[1] # 1
             THEN Raise("ValueError", "input must have gcd 1", <<c1, d2>>)
             ELSE Return(<<e[3], 0 - e[2], c1, d2>>)

(* ------------------------------ the lifts ------------------------------ *)

DetMsg == "Determinant is {0} mod {1}, should be 1"

CrtMsg == "No solution to crt problem"

Det2(g) == g[1] * g[4] - g[2] * g[3]

\* det_mod with the remainder of C, which takes the sign of the dividend
det_mod_truncated(g, m) ==
    IF Det2(g) < 0 THEN 0 - ((0 - Det2(g)) % m) ELSE Det2(g) % m

\* det = (a * d - b * c) % m
det_mod(g, m) == Det2(g) % m

\* bottom_row_residues with the two moduli exchanged
bottom_row_residues_swapped(c, d, m, n) == <<crt(c, 0, n, m), crt(d, 1, n, m)>>

\* c2 = crt(c, 0, m, n) and d2 = crt(d, 1, m, n), where both exist
bottom_row_residues(c, d, m, n) == <<crt(c, 0, m, n), crt(d, 1, m, n)>>

\* top_row_shift with the sign of its second term changed
top_row_shift_plus(a3, b3, a, b, m) == (a3 * b + b3 * a) % m

\* r = (a3*b - b3*a) % m, the multiple of the bottom row added to the top
top_row_shift(a3, b3, a, b, m) == (a3 * b - b3 * a) % m

\* shift_top_row adding r * c3 to both entries of the top row
shift_top_row_c3(l, r) == <<l[1] + r * l[3], l[2] + r * l[3], l[3], l[4]>>

\* shift_top_row adding r times the top row to the bottom row instead
shift_bottom_row(l, r) == <<l[1], l[2], l[3] + r * l[1], l[4] + r * l[2]>>

\* [a3 + r * c3, b3 + r * d3, c3, d3]
shift_top_row(l, r) == <<l[1] + r * l[3], l[2] + r * l[4], l[3], l[4]>>

\* validate_and_lift falling back on the residues modulo m alone where the
\* congruences modulo m and n have no common solution
validate_and_lift_lenient(g, m, n) ==
    LET det == det_mod(g, m)
    IN  IF det # 1 THEN Raise("ValueError", DetMsg, <<det, m>>)
        ELSE LET cd2 == IF crt_solutions(g[3], 0, m, n) = {} \/ crt_solutions(g[4], 1, m, n) = {}
                        THEN <<g[3] % m, g[4] % m>>
                        ELSE bottom_row_residues(g[3], g[4], m, n)
                 l == lift_to_sl2z(cd2[1], cd2[2], m * n)
             IN  IF l.kind = "raise" THEN l
                 ELSE Return(shift_top_row(l.val,
                                 top_row_shift(l.val[1], l.val[2], g[1], g[2], m)))

\* lift_to_gamma1 past its m == 1 test
validate_and_lift(g, m, n) ==
    LET det == det_mod(g, m)
    IN  IF det # 1 THEN Raise("ValueError", DetMsg, <<det, m>>)
        ELSE IF crt_solutions(g[3], 0, m, n) = {} \/ crt_solutions(g[4], 1, m, n) = {}
        THEN Raise("ValueError", CrtMsg, <<m, n>>)
        ELSE LET cd2 == bottom_row_residues(g[3], g[4], m, n)
                 l == lift_to_sl2z(cd2[1], cd2[2], m * n)
             IN  IF l.kind = "raise" THEN l
                 ELSE Return(shift_top_row(l.val,
                                 top_row_shift(l.val[1], l.val[2], g[1], g[2], m)))

\* lift_to_gamma1 without its m == 1 test
lift_to_gamma1_untested(g, m, n) == validate_and_lift(g, m, n)

lift_to_gamma1(g, m, n) ==
    IF m = 1 THEN Return(<<1, 0, 0, 1>>) ELSE validate_and_lift(g, m, n)

\* lift_matrix_to_sl2z with the secondary modulus 5 of the lift_to_gamma1 example
lift_matrix_to_sl2z_mod5(A, N) == lift_to_gamma1(A, N, 5)

\* lift_to_gamma1(A, N, 1)
lift_matrix_to_sl2z(A, N) == lift_to_gamma1(A, N, 1)

\* lift_gen_to_gamma1 lifting the inverse generator [0, 1, -1, 0]
lift_gen_to_gamma1_inverse(m, n) == lift_to_gamma1(<<0, 1, 0 - 1, 0>>, m, n)

\* lift_to_gamma1([0, -1, 1, 0], m, n)
lift_gen_to_gamma1(m, n) == lift_to_gamma1(<<0, 0 - 1, 1, 0>>, m, n)

\* scale_first_column scaling the upper-left entry only
scale_upper_left(p, g) == <<p * g[1], g[2], g[3], g[4]>>

\* [p * g[0], g[1], p * g[2], g[3]]
scale_first_column(p, g) == <<p * g[1], g[2], p * g[3], g[4]>>

lift_uniformiser_odd(p, u, n) ==
    LET g == lift_gen_to_gamma1(Pow(p, u), n)
    IN  IF g.kind = "raise" THEN g ELSE Return(scale_first_column(p, g.val))

\* ramified_residue without the inverse of a modulo p
ramified_residue_uninverted(l, c0, p, u) == (l[3] - c0) \div Pow(p, u)

\* the residue handed to crt: (c - g[2]) / p**u * inverse_mod(a, p); the
\* quotient is exact because the base lift has c = g[2] modulo p**u
ramified_residue(l, c0, p, u) == ((l[3] - c0) \div Pow(p, u)) * inverse_mod(l[1], p)

\* correct_bottom_row subtracting p**u * r * a from both entries
correct_bottom_row_a(l, p, u, r) ==
    <<l[1], l[2], l[3] - Pow(p, u) * r * l[1], l[4] - Pow(p, u) * r * l[1]>>

\* c - p**u * r * a and d - p**u * r * b under an unchanged top row
correct_bottom_row(l, p, u, r) ==
    <<l[1], l[2], l[3] - Pow(p, u) * r * l[1], l[4] - Pow(p, u) * r * l[2]>>

lift_ramified(g, p, u, n) ==
    LET l == lift_to_gamma1(g, Pow(p, u), n)
    IN  IF l.kind = "raise" THEN l
        ELSE IF gcd(l.val[1], p) # 1
        THEN Raise("ZeroDivisionError", "inverse does not exist", <<l.val[1], p>>)
        ELSE IF crt_solutions(ramified_residue(l.val, g[3], p, u), 0, p, n) = {}
        THEN Raise("ValueError", CrtMsg, <<p, n>>)
        ELSE Return(correct_bottom_row(l.val, p, u,
                        crt(ramified_residue(l.val, g[3], p, u), 0, p, n)))

(* ------------------------------ matrices ------------------------------- *)

Dim(A) == Len(A)

\* body(x) with x the value of e, computed once
With(e, body(_)) == CHOOSE r \in {body(x) : x \in {e}} : TRUE

\* the tuple of the values of a function on 1 .. n, from index i on
RECURSIVE TupleFrom(_, _)
TupleFrom(s, i) == IF i > Len(s) THEN <<>> ELSE <<s[i]>> \o TupleFrom(s, i + 1)

RECURSIVE RowsFrom(_, _)
RowsFrom(A, i) ==
    IF i > Len(A) THEN <<>>
    ELSE <<With(A[i], LAMBDA r : TupleFrom(r, 1))>> \o RowsFrom(A, i + 1)

\* a matrix as a tuple of rows
Rows(A) == With(A, LAMBDA x : RowsFrom(x, 1))

Matrix(k, f(_, _)) == Rows([i \in 1..k |-> [j \in 1..k |-> f(i, j)]])

identity_entry(i, j) == IF i = j THEN 1 ELSE 0

identity_matrix(k) == Matrix(k, identity_entry)

RECURSIVE SumFrom(_, _)
SumFrom(s, i) == IF i > Len(s) THEN 0 ELSE s[i] + SumFrom(s, i + 1)

\* the sum of the entries of s, s computed once
SumSeq(s) == With(s, LAMBDA x : SumFrom(x, 1))

MatMulV(A, B) ==
    LET k == Dim(A)
    IN  Rows([i \in 1..k |-> [j \in 1..k |->
            SumSeq([t \in 1..k |-> A[i][t] * B[t][j]])]])

\* the matrix product, each factor computed once
MatMul(A, B) == With(A, LAMBDA x : With(B, LAMBDA y : MatMulV(x, y)))

Sign(i) == IF i % 2 = 0 THEN 1 ELSE 0 - 1

\* the determinant of the submatrix of A on the rows rs and the columns cs
\* (as many), expanded along its first row
RECURSIVE DetSub(_, _, _)
DetSub(A, rs, cs) ==
    IF rs = {} THEN 1
    ELSE LET r == CHOOSE x \in rs : \A o \in rs : x <= o
         IN  SumSeq([c \in 1..Dim(A) |->
                 IF c \in cs
                 THEN Sign(Cardinality({o \in cs : o < c})) * A[r][c]
                          * DetSub(A, rs \ {r}, cs \ {c})
                 ELSE 0])

DetV(A) == DetSub(A, 1..Dim(A), 1..Dim(A))

Det(A) == With(A, LAMBDA x : DetV(x))

\* the adjugate: A * Adj(A) = Det(A) * identity
AdjV(A) ==
    Rows([i \in 1..Dim(A) |-> [j \in 1..Dim(A) |->
        Sign(i + j) * DetSub(A, (1..Dim(A)) \ {j}, (1..Dim(A)) \ {i})]])

Adj(A) == With(A, LAMBDA x : AdjV(x))

IsDiagonal(D) == \A i \in 1..Dim(D), j \in 1..Dim(D) : i # j => D[i][j] = 0

CongruentMod(L, A, N) ==
    /\ Dim(L) = Dim(A)
    /\ \A i \in 1..Dim(A), j \in 1..Dim(A) : (L[i][j] - A[i][j]) % N = 0

(* ---------------------------- Smith normal form ------------------------ *)

\* identity with rows i and j exchanged
SwapM(k, i, j) ==
    Rows([r \in 1..k |-> [c \in 1..k |->
        IF r = i THEN (IF c = j THEN 1 ELSE 0)
        ELSE IF r = j THEN (IF c = i THEN 1 ELSE 0)
        ELSE identity_entry(r, c)]])

\* subtracts from every row below t the multiple of row t that leaves the
\* remainder of its entry of column t by the pivot
ClearColumn(D, t) ==
    Rows([r \in 1..Dim(D) |-> [c \in 1..Dim(D) |->
        IF r > t /\ c = t THEN 0 - (D[r][t] \div D[t][t]) ELSE identity_entry(r, c)]])

ClearRow(D, t) ==
    Rows([r \in 1..Dim(D) |-> [c \in 1..Dim(D) |->
        IF r = t /\ c > t THEN 0 - (D[t][c] \div D[t][t]) ELSE identity_entry(r, c)]])

\* identity with entry (i, j) set to 1: adds row j to row i
AddRowM(k, i, j) ==
    Rows([r \in 1..k |-> [c \in 1..k |-> IF r = i /\ c = j THEN 1 ELSE identity_entry(r, c)]])

\* negates the rows whose diagonal entry is negative
Signs(D) ==
    Rows([r \in 1..Dim(D) |-> [c \in 1..Dim(D) |->
        IF r = c THEN (IF D[r][r] < 0 THEN 0 - 1 ELSE 1) ELSE 0]])

RowOp(s, E) == With(E, LAMBDA x : [D |-> MatMul(x, s.D), U |-> MatMul(x, s.U), V |-> s.V])

ColOp(s, E) == With(E, LAMBDA x : [D |-> MatMul(s.D, x), U |-> s.U, V |-> MatMul(s.V, x)])

\* the place of a nonzero entry of least absolute value at or past (t, t)
Pivot(D, t) ==
    LET nz == {ij \in (t..Dim(D)) \X (t..Dim(D)) : D[ij[1]][ij[2]] # 0}
        key(ij) == (Abs(D[ij[1]][ij[2]]) * (Dim(D) + 1) + ij[1]) * (Dim(D) + 1) + ij[2]
    IN  CHOOSE ij \in nz : \A o \in nz : key(ij) <= key(o)

\* s after the pivot of step t is moved to (t, t) and column t below it and
\* row t to its right are reduced modulo it
smith_cleared(s, t) ==
    LET k == Dim(s.D)
        ij == Pivot(s.D, t)
    IN  With(ColOp(RowOp(s, SwapM(k, t, ij[1])), SwapM(k, t, ij[2])),
             LAMBDA s1 : With(RowOp(s1, ClearColumn(s1.D, t)),
                              LAMBDA s2 : ColOp(s2, ClearRow(s2.D, t))))

RECURSIVE smith_from(_, _)
smith_decide(s3, t) ==
    LET k == Dim(s3.D)
        bad == {i \in (t + 1)..k : \E j \in (t + 1)..k : s3.D[i][j] % Abs(s3.D[t][t]) # 0}
    IN  IF \E i \in (t + 1)..k : s3.D[i][t] # 0 \/ s3.D[t][i] # 0
        THEN smith_from(s3, t)
        ELSE IF bad # {}
        THEN smith_from(RowOp(s3, AddRowM(k, t, CHOOSE i \in bad : \A o \in bad : i <= o)), t)
        ELSE smith_from(s3, t + 1)

smith_step(s, t) ==
    IF t > Dim(s.D) \/ \A i \in t..Dim(s.D), j \in t..Dim(s.D) : s.D[i][j] = 0
    THEN RowOp(s, Signs(s.D))
    ELSE With(smith_cleared(s, t), LAMBDA s3 : smith_decide(s3, t))

smith_from(s0, t) == With(s0, LAMBDA s : smith_step(s, t))

\* A.smith_form(): D, U, V with D = U * A * V diagonal, its entries
\* non-negative, each dividing the next, and U, V of determinant 1 or -1
smith_form(A) ==
    smith_from([D |-> A, U |-> identity_matrix(Dim(A)), V |-> identity_matrix(Dim(A))], 1)

IsSmithForm(A, s) ==
    /\ s.D = MatMul(MatMul(s.U, A), s.V)
    /\ IsDiagonal(s.D)
    /\ Det(s.U) \in {1, 0 - 1}
    /\ Det(s.V) \in {1, 0 - 1}
    /\ \A i \in 1..Dim(A) : s.D[i][i] >= 0
    /\ \A i \in 1..(Dim(A) - 1) :
          IF s.D[i][i] = 0 THEN s.D[i + 1][i + 1] = 0
          ELSE s.D[i + 1][i + 1] % s.D[i][i] = 0

(* ------------------------------ lift_for_SL ---------------------------- *)

\* diagonal_matrix([-1] + [1] * (m - 1))
sign_diag_entry(i, j) == IF i # j THEN 0 ELSE IF i = 1 THEN 0 - 1 ELSE 1

sign_diag(m) == Matrix(m, sign_diag_entry)

\* normalize_U leaving U as smith_form returned it
normalize_U_skipped(U0) == U0

\* if U.det() == -1: U = diag * U
normalize_U(U0) == With(U0, LAMBDA U : IF Det(U) = 0 - 1 THEN MatMul(sign_diag(Dim(U)), U) ELSE U)

\* normalize_V leaving V as smith_form returned it
normalize_V_skipped(V0) == V0

\* if V.det() == -1: V = V * diag
normalize_V(V0) == With(V0, LAMBDA V : IF Det(V) = 0 - 1 THEN MatMul(V, sign_diag(Dim(V))) ELSE V)

\* a = [D[i, i] for i in range(m)]
diagonal_of(D) == [i \in 1..Dim(D) |-> D[i][i]]

RECURSIVE prod(_)
prod(s) == IF Len(s) = 0 THEN 1 ELSE s[1] * prod(Tail(s))

\* W_matrix with W[1, 0] = b
W_matrix_b(m, b) ==
    LET e(i, j) == IF i = 1 /\ j = 1 THEN b
                   ELSE IF i = 2 /\ j = 1 THEN b
                   ELSE IF i = 1 /\ j = 2 THEN 1
                   ELSE identity_entry(i, j)
    IN  Matrix(m, e)

\* W: the identity with W[0, 0] = b, W[1, 0] = b - 1, W[0, 1] = 1
W_matrix(m, b) ==
    LET e(i, j) == IF i = 1 /\ j = 1 THEN b
                   ELSE IF i = 2 /\ j = 1 THEN b - 1
                   ELSE IF i = 1 /\ j = 2 THEN 1
                   ELSE identity_entry(i, j)
    IN  Matrix(m, e)

\* X_matrix with X[0, 1] = a[1]
X_matrix_positive(m, a) ==
    LET e(i, j) == IF i = 1 /\ j = 2 THEN a[2] ELSE identity_entry(i, j)
    IN  Matrix(m, e)

\* X: the identity with X[0, 1] = -a[1]
X_matrix(m, a) ==
    LET e(i, j) == IF i = 1 /\ j = 2 THEN 0 - a[2] ELSE identity_entry(i, j)
    IN  Matrix(m, e)

\* Ap: D with Ap[0, 0] = 1, Ap[1, 0] = 1 - a[0], Ap[1, 1] *= a[0]
Ap_matrix(D, a) ==
    LET e(i, j) == IF i = 1 /\ j = 1 THEN 1
                   ELSE IF i = 2 /\ j = 1 THEN 1 - a[1]
                   ELSE IF i = 2 /\ j = 2 THEN D[2][2] * a[1]
                   ELSE D[i][j]
    IN  Matrix(Dim(D), e)

\* Cp_matrix on the whole of a: diagonal_matrix(a) with Cp[0, 0] *= a[0]
Cp_matrix_undropped(a) ==
    LET e(i, j) == IF i # j THEN 0
                   ELSE IF i = 1 THEN a[1] * a[1]
                   ELSE a[i]
    IN  Matrix(Len(a), e)

\* Cp: diagonal_matrix(a[1:]) with Cp[0, 0] *= a[0]
Cp_matrix(a) ==
    LET e(i, j) == IF i # j THEN 0
                   ELSE IF i = 1 THEN a[2] * a[1]
                   ELSE a[i + 1]
    IN  Matrix(Len(a) - 1, e)

\* Cpp_matrix on the block diagonal_matrix([a[0]]) in place of identity_matrix(1)
Cpp_matrix_scaled(C, a) ==
    LET e(i, j) == IF i = 2 /\ j = 1 THEN 1 - a[1]
                   ELSE IF i = 1 /\ j = 1 THEN a[1]
                   ELSE IF i = 1 \/ j = 1 THEN 0
                   ELSE C[i - 1][j - 1]
    IN  Matrix(Dim(C) + 1, e)

\* Cpp: block_diagonal_matrix(identity_matrix(1), C) with Cpp[1, 0] = 1 - a[0]
Cpp_matrix(C, a) ==
    LET e(i, j) == IF i = 2 /\ j = 1 THEN 1 - a[1]
                   ELSE IF i = 1 \/ j = 1 THEN identity_entry(i, j)
                   ELSE C[i - 1][j - 1]
    IN  Matrix(Dim(C) + 1, e)

\* (~U * ~W * Cpp * ~X * ~V).change_ring(ZZ): each inverse is the adjugate
\* over the determinant, and the product must have integer entries
integral_quotient(P, dd) ==
    IF \E i \in 1..Dim(P), j \in 1..Dim(P) : P[i][j] % Abs(dd) # 0
    THEN Raise("TypeError", "matrix has denominators so can't change to ZZ", <<>>)
    ELSE Return(Matrix(Dim(P), LAMBDA i, j : P[i][j] \div dd))

inverse_product(U, W, Cpp, X, V) ==
    IF Det(U) * Det(W) * Det(X) * Det(V) = 0
    THEN Raise("ZeroDivisionError", "input matrix must be nonsingular", <<>>)
    ELSE With(MatMul(MatMul(MatMul(MatMul(Adj(U), Adj(W)), Cpp), Adj(X)), Adj(V)),
              LAMBDA P : integral_quotient(P, Det(U) * Det(W) * Det(X) * Det(V)))

\* the locals of an invocation from its U, V (sign-normalized), D and a
SL_locals(A, U, V, D, a) ==
    [A |-> A, U |-> U, V |-> V, D |-> D, a |-> a,
     W |-> W_matrix(Dim(A), prod(Tail(a))),
     X |-> X_matrix(Dim(A), a),
     Ap |-> Ap_matrix(D, a),
     Cp |-> Cp_matrix(a)]

\* D = U * A * V and a = [D[i, i] for i in range(m)]
SL_diagonalize(A, U, V) ==
    With(MatMul(MatMul(U, A), V), LAMBDA D :
        With(TupleFrom(diagonal_of(D), 1), LAMBDA a : SL_locals(A, U, V, D, a)))

\* the locals of one invocation when it makes its recursive call
SL_frame(A) ==
    With(smith_form(A), LAMBDA s :
        With(normalize_U(s.U), LAMBDA U :
            With(normalize_V(s.V), LAMBDA V : SL_diagonalize(A, U, V))))

\* what an invocation returns once its recursive call has returned C
SL_result(f, C) ==
    With(Cpp_matrix(C, f.a), LAMBDA Cpp : inverse_product(f.U, f.W, Cpp, f.X, f.V))

(* ------------------------------ actions -------------------------------- *)

Init == call = NoCall /\ ret = NoRet /\ arg = <<>> /\ frames = <<>>

Idle == call = NoCall

Call_lift_to_gamma1 ==
    /\ Idle
    /\ \E g \in Gs, m \in Moduli, n \in Moduli :
          /\ call' = [NoCall EXCEPT !.fn = "lift_to_gamma1", !.g = g, !.m = m, !.n = n]
          /\ ret' = lift_to_gamma1(g, m, n)
    /\ UNCHANGED <<arg, frames>>

\* the documented example lift_matrix_to_sl2z([10, 11, 3, 11], 19)
example_sl2z == <<<<10, 11, 3, 11>>, 19>>

\* lift_matrix_to_sl2z(A, N) is called: on the small inputs and on the
\* documented example
Call_lift_matrix_to_sl2z ==
    /\ Idle
    /\ \E x \in (Gs \X Moduli) \cup {example_sl2z} :
          /\ call' = [NoCall EXCEPT !.fn = "lift_matrix_to_sl2z", !.g = x[1], !.m = x[2], !.n = 1]
          /\ ret' = lift_matrix_to_sl2z(x[1], x[2])
    /\ UNCHANGED <<arg, frames>>

Call_lift_gen_to_gamma1 ==
    /\ Idle
    /\ \E m \in Moduli, n \in Moduli :
          /\ call' = [NoCall EXCEPT !.fn = "lift_gen_to_gamma1", !.m = m, !.n = n]
          /\ ret' = lift_gen_to_gamma1(m, n)
    /\ UNCHANGED <<arg, frames>>

Call_lift_uniformiser_odd ==
    /\ Idle
    /\ \E p \in Primes, u \in Exponents, n \in Moduli :
          /\ call' = [NoCall EXCEPT !.fn = "lift_uniformiser_odd", !.p = p, !.u = u, !.n = n]
          /\ ret' = lift_uniformiser_odd(p, u, n)
    /\ UNCHANGED <<arg, frames>>

Call_lift_ramified ==
    /\ Idle
    /\ \E g \in Gs, p \in Primes, u \in Exponents, n \in Moduli :
          /\ call' = [NoCall EXCEPT !.fn = "lift_ramified", !.g = g, !.p = p, !.u = u, !.n = n]
          /\ ret' = lift_ramified(g, p, u, n)
    /\ UNCHANGED <<arg, frames>>

Next2 ==
    \/ Call_lift_to_gamma1
    \/ Call_lift_matrix_to_sl2z
    \/ Call_lift_gen_to_gamma1
    \/ Call_lift_uniformiser_odd
    \/ Call_lift_ramified

\* the matrices lift_for_SL is called on: the leading 2 x 2 block is free
\* (a 1 x 1 matrix is its first entry), the rest of the diagonal is one free
\* entry repeated, all else is 0
SL_input(k, f) ==
    LET e(i, j) == IF i <= 2 /\ j <= 2 THEN f[2 * (i - 1) + j]
                   ELSE IF i = j THEN f[5]
                   ELSE 0
    IN  Matrix(k, e)

SL_inputs(k) ==
    {SL_input(k, f) : f \in [1..(IF k = 1 THEN 1 ELSE IF k = 2 THEN 4 ELSE 5) -> SLEntries]}

\* lift_for_SL(A, N) is called
Call_lift_for_SL ==
    /\ Idle
    /\ \E k \in 1..MaxDim, N \in 1..MaxSLMod :
          \E A \in SL_inputs(k) :
             /\ call' = [NoCall EXCEPT !.fn = "lift_for_SL", !.g = A, !.n = N]
             /\ arg' = A
    /\ UNCHANGED <<ret, frames>>

\* m >= 2: the invocation runs up to its recursive call lift_for_SL(Cp, N)
SL_recurse ==
    /\ arg # <<>>
    /\ Dim(arg) # 1
    /\ frames' = Append(frames, SL_frame(arg))
    /\ arg' = frames'[Len(frames')].Cp
    /\ UNCHANGED <<call, ret>>

\* m == 1: return identity_matrix(1)
SL_base ==
    /\ arg # <<>>
    /\ Dim(arg) = 1
    /\ ret' = Return(identity_matrix(1))
    /\ arg' = <<>>
    /\ UNCHANGED <<call, frames>>

\* the recursive call has returned C (or raised): the innermost waiting
\* invocation returns ~U * ~W * Cpp * ~X * ~V (or the exception goes on up)
SL_return ==
    /\ arg = <<>>
    /\ frames # <<>>
    /\ ret.kind # "none"
    /\ ret' = IF ret.kind = "raise" THEN ret
              ELSE SL_result(frames[Len(frames)], ret.val)
    /\ frames' = SubSeq(frames, 1, Len(frames) - 1)
    /\ UNCHANGED <<call, arg>>

NextSL == Call_lift_for_SL \/ SL_recurse \/ SL_base \/ SL_return

Next == Next2 \/ NextSL

Spec == Init /\ [][Next]_vars

\* a call of lift_for_SL runs on: the interpreter executes each invocation up
\* to its recursive call, the base case, and each return
FairSpec ==
    Spec /\ WF_vars(SL_recurse) /\ WF_vars(SL_base) /\ WF_vars(SL_return)

\* the call has finished: nothing is running or waiting
Done == call # NoCall /\ arg = <<>> /\ frames = <<>> /\ ret.kind # "none"

(* ------------------------------- claims -------------------------------- *)

(* Determinants of returned matrices exceed 32 bits, so the claims compute
   them in limbs: an integer x is the tuple of its digits in base 2^13, least
   first, of x modulo 2^91 (a negative x as its complement). *)

LimbBase == 2^13

LimbIndex == 1..7

RECURSIVE LimbsFrom(_, _, _)
LimbsFrom(v, i, carry) ==
    IF i \notin LimbIndex THEN <<>>
    ELSE <<(v[i] + carry) % LimbBase>> \o LimbsFrom(v, i + 1, (v[i] + carry) \div LimbBase)

\* carries propagated: every digit in 0 .. 2^13 - 1
Limbs(v0) == With(v0, LAMBDA v : LimbsFrom(v, 1, 0))

BigInt(x) == Limbs([i \in LimbIndex |-> IF i = 1 THEN x ELSE 0])

BigMul(u0, v0) ==
    With(u0, LAMBDA u : With(v0, LAMBDA v :
        Limbs(TupleFrom([i \in LimbIndex |-> SumSeq([j \in 1..i |-> u[j] * v[i - j + 1]])], 1))))

BigSub(u0, v0) ==
    With(u0, LAMBDA u : With(v0, LAMBDA v :
        Limbs(TupleFrom([i \in LimbIndex |-> u[i] - v[i]], 1))))

\* the sum of a tuple of integers in limbs
BigSum(s0) ==
    With(TupleFrom(s0, 1), LAMBDA s :
        Limbs(TupleFrom([i \in LimbIndex |-> SumSeq([t \in 1..Len(s) |-> s[t][i]])], 1)))

\* ad - bc = v, for entries and v of at most 31 bits
Det2Is(g, v) ==
    BigSub(BigMul(BigInt(g[1]), BigInt(g[4])), BigMul(BigInt(g[2]), BigInt(g[3]))) = BigInt(v)

RECURSIVE BigDetSub(_, _, _)
BigDetSub(A, rs, cs) ==
    IF rs = {} THEN BigInt(1)
    ELSE LET r == CHOOSE x \in rs : \A o \in rs : x <= o
         IN  BigSum([c \in 1..Dim(A) |->
                 IF c \in cs
                 THEN BigMul(BigInt(Sign(Cardinality({o \in cs : o < c})) * A[r][c]),
                             BigDetSub(A, rs \ {r}, cs \ {c}))
                 ELSE BigInt(0)])

\* det(L) = v for L of dimension at most 4 with entries below 2^20 in
\* absolute value (|det(L)| < 2^85 then, and its limbs decide it); computed
\* in machine integers otherwise
DetIs(L, v) ==
    IF Dim(L) <= 4 /\ \A i \in 1..Dim(L), j \in 1..Dim(L) : Abs(L[i][j]) < 2^20
    THEN BigDetSub(L, 1..Dim(L), 1..Dim(L)) = BigInt(v)
    ELSE Det(L) = v

Coprime(m, n) == gcd(m, n) = 1

\* ad - bc = 1 (mod m)
DetCongruent(g, m) == Det2(g) % m = 1 % m

\* the base lift is called within its contract
ValidGamma1Call ==
    /\ call.fn = "lift_to_gamma1"
    /\ Coprime(call.m, call.n)
    /\ DetCongruent(call.g, call.m)

\* what lift_to_sl2z returns inside the base lift of g at (m, n)
ElementaryLift(g, m, n) ==
    lift_to_sl2z(crt(g[3], 0, m, n), crt(g[4], 1, m, n), m * n).val

\* C1: the base lift of a matrix of determinant 1 modulo m, at coprime
\* moduli m and n, returns integers a', b', c', d' with a'd' - b'c' = 1
C1_DeterminantExactlyOne ==
    ValidGamma1Call => ret.kind = "return" /\ Det2Is(ret.val, 1)

\* a lift at moduli m, n >= 2 of a matrix whose integer determinant is not 1
C1_Witness ==
    /\ ValidGamma1Call
    /\ call.m >= 2
    /\ call.n >= 2
    /\ Det2(call.g) # 1
    /\ ret.kind = "return"
    /\ Det2Is(ret.val, 1)

\* C2: each of the four entries the base lift returns is congruent modulo m
\* to the entry of the input in its place
C2_CongruentModuloM ==
    ValidGamma1Call =>
        /\ ret.kind = "return"
        /\ \A i \in 1..4 : (ret.val[i] - call.g[i]) % call.m = 0

\* a lift whose top row needed a correction r # 0
C2_Witness ==
    /\ ValidGamma1Call
    /\ call.m >= 2
    /\ call.n >= 2
    /\ LET l == ElementaryLift(call.g, call.m, call.n)
       IN  top_row_shift(l[1], l[2], call.g[1], call.g[2], call.m) # 0
    /\ ret.kind = "return"
    /\ \A i \in 1..4 : (ret.val[i] - call.g[i]) % call.m = 0

\* C3: the matrix the base lift returns is upper unitriangular modulo n:
\* a' = 1, c' = 0 and d' = 1 modulo n
C3_UnitriangularModuloN ==
    ValidGamma1Call =>
        /\ ret.kind = "return"
        /\ (ret.val[1] - 1) % call.n = 0
        /\ ret.val[3] % call.n = 0
        /\ (ret.val[4] - 1) % call.n = 0

\* a lift of a matrix that is not unitriangular modulo n, to one that is and
\* whose upper-right entry is not 0 modulo n
C3_Witness ==
    /\ ValidGamma1Call
    /\ call.m >= 2
    /\ call.n >= 2
    /\ call.g[3] % call.n # 0
    /\ (call.g[4] - 1) % call.n # 0
    /\ ret.kind = "return"
    /\ ret.val[3] % call.n = 0
    /\ (ret.val[4] - 1) % call.n = 0
    /\ ret.val[2] % call.n # 0

\* C4: with m = 1 the base lift returns (1, 0, 0, 1) whatever g and n are,
\* and raises nothing
C4_ModulusOneIsIdentity ==
    (call.fn = "lift_to_gamma1" /\ call.m = 1) => ret = Return(<<1, 0, 0, 1>>)

\* a call with m = 1 on a matrix of determinant other than 1
C4_Witness ==
    /\ call.fn = "lift_to_gamma1"
    /\ call.m = 1
    /\ call.n >= 2
    /\ Det2(call.g) # 1
    /\ call.g # <<1, 0, 0, 1>>
    /\ ret = Return(<<1, 0, 0, 1>>)

\* the base lift, or the plain lift, is called with m >= 2
DeterminantChecked ==
    /\ call.fn \in {"lift_to_gamma1", "lift_matrix_to_sl2z"}
    /\ call.m >= 2

\* the error of a failed determinant test: the residue in 0 .. m - 1, and m
DeterminantError(g, m) == Raise("ValueError", DetMsg, <<Det2(g) % m, m>>)

\* C5 as stated: with m >= 2 and any n, the lift fails with a ValueError
\* exactly when (ad - bc) mod m is not 1, and the error then reports that
\* residue and m
C5_AsStated ==
    DeterminantChecked =>
        /\ (ret.kind = "raise" /\ ret.exc = "ValueError") <=> Det2(call.g) % call.m # 1
        /\ Det2(call.g) % call.m # 1 => ret = DeterminantError(call.g, call.m)

\* C5 as amended: with m >= 2 and any n, the lift fails with the determinant
\* error, reporting the residue in 0 .. m - 1 and m, exactly when
\* (ad - bc) mod m is not 1; with n coprime to m it fails in no other case
C5_DeterminantError ==
    DeterminantChecked =>
        /\ (ret.kind = "raise" /\ ret.msg = DetMsg) <=> Det2(call.g) % call.m # 1
        /\ Det2(call.g) % call.m # 1 => ret = DeterminantError(call.g, call.m)
        /\ Coprime(call.m, call.n) =>
              (ret.kind = "raise" <=> Det2(call.g) % call.m # 1)

\* a matrix of negative determinant fails the test with a residue in 2 .. m - 1
C5_Witness ==
    /\ DeterminantChecked
    /\ Det2(call.g) < 0
    /\ Det2(call.g) % call.m >= 2
    /\ ret = DeterminantError(call.g, call.m)

\* lift_for_SL(A, N) has finished on a matrix of dimension >= 2 whose
\* determinant is 1 modulo N
ValidSLCall ==
    /\ call.fn = "lift_for_SL"
    /\ Done
    /\ Dim(call.g) >= 2
    /\ Det(call.g) % call.n = 1 % call.n

\* C6: lift_for_SL(A, N), for A of dimension >= 2 with det(A) = 1 modulo N,
\* returns an integer matrix of determinant exactly 1
C6_SLDeterminantExactlyOne ==
    ValidSLCall => ret.kind = "return" /\ DetIs(ret.val, 1)

\* a 3 x 3 matrix whose determinant is 1 modulo N >= 2 but not 1
C6_Witness ==
    /\ ValidSLCall
    /\ Dim(call.g) = 3
    /\ call.n >= 2
    /\ Det(call.g) # 1
    /\ ret.kind = "return"
    /\ DetIs(ret.val, 1)

\* C7: the matrix lift_for_SL(A, N) returns is congruent to A modulo N in
\* every entry
C7_SLCongruentModuloN ==
    ValidSLCall => ret.kind = "return" /\ CongruentMod(ret.val, call.g, call.n)

\* a lift, modulo N >= 2, that differs from its non-diagonal input A
C7_Witness ==
    /\ ValidSLCall
    /\ call.n >= 2
    /\ ~IsDiagonal(call.g)
    /\ Det(call.g) # 1
    /\ ret.kind = "return"
    /\ ret.val # call.g
    /\ CongruentMod(ret.val, call.g, call.n)

\* lift_ramified is called within its contract: p prime and coprime to n,
\* p | c and ad - bc = 1 modulo p^u
ValidRamifiedCall ==
    /\ call.fn = "lift_ramified"
    /\ IsPrime(call.p)
    /\ Coprime(call.p, call.n)
    /\ call.g[3] % call.p = 0
    /\ DetCongruent(call.g, Pow(call.p, call.u))

\* C8: the lower-left entry lift_ramified returns is congruent to the input's
\* modulo p^(u+1), for u >= 1
C8_LowerLeftModuloNextPower ==
    (ValidRamifiedCall /\ call.u >= 1) =>
        /\ ret.kind = "return"
        /\ (ret.val[3] - call.g[3]) % Pow(call.p, call.u + 1) = 0

\* a call where the base lift's lower-left entry matches c modulo p^u only
C8_Witness ==
    /\ ValidRamifiedCall
    /\ call.u >= 1
    /\ call.n >= 2
    /\ (lift_to_gamma1(call.g, Pow(call.p, call.u), call.n).val[3] - call.g[3])
           % Pow(call.p, call.u + 1) # 0
    /\ ret.kind = "return"
    /\ (ret.val[3] - call.g[3]) % Pow(call.p, call.u + 1) = 0

\* C9: lift_ramified returns a matrix of determinant exactly 1, congruent to
\* the input modulo p^u in all four entries, upper unitriangular modulo n,
\* and with the top row of the base lift at (p^u, n)
C9_RamifiedKeepsBaseLift ==
    ValidRamifiedCall =>
        /\ ret.kind = "return"
        /\ Det2Is(ret.val, 1)
        /\ \A i \in 1..4 : (ret.val[i] - call.g[i]) % Pow(call.p, call.u) = 0
        /\ (ret.val[1] - 1) % call.n = 0
        /\ ret.val[3] % call.n = 0
        /\ (ret.val[4] - 1) % call.n = 0
        /\ ret.val[1] = lift_to_gamma1(call.g, Pow(call.p, call.u), call.n).val[1]
        /\ ret.val[2] = lift_to_gamma1(call.g, Pow(call.p, call.u), call.n).val[2]

\* a call whose correction changed the bottom row of the base lift
C9_Witness ==
    /\ ValidRamifiedCall
    /\ call.u >= 1
    /\ call.n >= 2
    /\ ret.kind = "return"
    /\ ret.val # lift_to_gamma1(call.g, Pow(call.p, call.u), call.n).val
    /\ ret.val[4] # lift_to_gamma1(call.g, Pow(call.p, call.u), call.n).val[4]
    /\ Det2Is(ret.val, 1)

\* C10: lift_uniformiser_odd(p, u, n), for p prime, u >= 0 and n coprime to
\* p, returns integers a, b, c, d with ad - bc = p
C10_UniformiserDeterminantP ==
    (call.fn = "lift_uniformiser_odd" /\ IsPrime(call.p) /\ Coprime(call.p, call.n)) =>
        ret.kind = "return" /\ Det2Is(ret.val, call.p)

\* a uniformiser at a proper prime power p^u and a modulus n >= 2
C10_Witness ==
    /\ call.fn = "lift_uniformiser_odd"
    /\ IsPrime(call.p)
    /\ Coprime(call.p, call.n)
    /\ call.u >= 1
    /\ call.n >= 2
    /\ ret.kind = "return"
    /\ Det2Is(ret.val, call.p)

\* lift_uniformiser_odd is called within its contract: p prime, n coprime to p
ValidUniformiserCall ==
    /\ call.fn = "lift_uniformiser_odd"
    /\ IsPrime(call.p)
    /\ Coprime(call.p, call.n)

\* C11: the matrix lift_uniformiser_odd(p, u, n) returns is congruent to
\* diag(p, 1) modulo n in all four entries: upper-left p, upper-right 0,
\* lower-left 0, lower-right 1
C11_DiagonalModuloN ==
    ValidUniformiserCall =>
        /\ ret.kind = "return"
        /\ (ret.val[1] - call.p) % call.n = 0
        /\ ret.val[2] % call.n = 0
        /\ ret.val[3] % call.n = 0
        /\ (ret.val[4] - 1) % call.n = 0

\* C12: the matrix lift_uniformiser_odd(p, u, n) returns is congruent to
\* [[0, -1], [p, 0]] modulo p^u in all four entries, and it is the generator
\* lift at (p^u, n), a matrix of determinant 1 congruent to [[0, -1], [1, 0]]
\* modulo p^u, with its two first-column entries multiplied by p and its
\* second column unchanged
C12_GeneratorModuloPrimePower ==
    ValidUniformiserCall =>
        LET q == Pow(call.p, call.u)
            g == lift_gen_to_gamma1(q, call.n)
        IN  /\ ret.kind = "return"
            /\ ret.val[1] % q = 0
            /\ (ret.val[2] + 1) % q = 0
            /\ (ret.val[3] - call.p) % q = 0
            /\ ret.val[4] % q = 0
            /\ g.kind = "return"
            /\ Det2Is(g.val, 1)
            /\ \A i \in 1..4 : (g.val[i] - <<0, 0 - 1, 1, 0>>[i]) % q = 0
            /\ ret.val = <<call.p * g.val[1], g.val[2], call.p * g.val[3], g.val[4]>>

\* a uniformiser at p^u >= 3 and n >= 2 that is not [[0, -1], [p, 0]] itself
C12_Witness ==
    /\ ValidUniformiserCall
    /\ Pow(call.p, call.u) >= 3
    /\ call.n >= 2
    /\ ret.kind = "return"
    /\ ret.val # <<0, 0 - 1, call.p, 0>>
    /\ ret.val[1] # 0
    /\ \A i \in 1..4 : (ret.val[i] - <<0, 0 - 1, call.p, 0>>[i]) % Pow(call.p, call.u) = 0

\* the documented plain lift lift_matrix_to_sl2z([10, 11, 3, 11], 19) is called
ExampleCall ==
    /\ call.fn = "lift_matrix_to_sl2z"
    /\ <<call.g, call.m>> = example_sl2z
    /\ call.n = 1

\* C13 as stated: lift_matrix_to_sl2z([10, 11, 3, 11], 19) returns
\* (371, 68, 60, 11), of determinant 1 and congruent to the input modulo 19
C13_AsStated ==
    ExampleCall =>
        /\ ret = Return(<<371, 68, 60, 11>>)
        /\ Det2Is(ret.val, 1)
        /\ \A i \in 1..4 : (ret.val[i] - call.g[i]) % 19 = 0

\* C13 as amended: lift_matrix_to_sl2z([10, 11, 3, 11], 19), the base lift
\* with n = 1, returns (29, 106, 3, 11), of determinant 1 and congruent to the
\* input modulo 19
C13_ExampleLift ==
    ExampleCall =>
        /\ ret = Return(<<29, 106, 3, 11>>)
        /\ ret = lift_to_gamma1(call.g, call.m, 1)
        /\ Det2Is(ret.val, 1)
        /\ \A i \in 1..4 : (ret.val[i] - call.g[i]) % 19 = 0

\* the example has returned a lift whose top row is not the input's
C13_Witness ==
    /\ ExampleCall
    /\ ret.kind = "return"
    /\ ret.val[1] # call.g[1]
    /\ ret.val[2] # call.g[2]
    /\ Det2Is(ret.val, 1)

\* the invocations of a running lift_for_SL(A, N), A of dimension n: the
\* i-th works on a matrix of dimension n - i + 1 and calls itself on one of
\* dimension n - i, so at most n are ever open
RecursionDepth ==
    call.fn = "lift_for_SL" =>
        /\ Len(frames) <= Dim(call.g) - 1
        /\ arg # <<>> => Dim(arg) = Dim(call.g) - Len(frames)
        /\ \A i \in 1..Len(frames) :
              /\ Dim(frames[i].A) = Dim(call.g) - i + 1
              /\ Dim(frames[i].A) >= 2
              /\ Dim(frames[i].Cp) = Dim(call.g) - i

\* C14: lift_for_SL(A, N) terminates on every n x n integer matrix, n >= 1:
\* an invocation on dimension k >= 2 makes one recursive call, on dimension
\* k - 1, dimension 1 returns without recursing, the depth of the recursion
\* is n, and the call eventually returns
C14_Terminates ==
    /\ []RecursionDepth
    /\ [][SL_recurse => (Dim(arg) >= 2 /\ Dim(arg') = Dim(arg) - 1
                          /\ Len(frames') = Len(frames) + 1)]_vars
    /\ [][SL_base => (Dim(arg) = 1 /\ frames' = frames
                       /\ Len(frames) + 1 = Dim(call.g))]_vars
    /\ (call.fn = "lift_for_SL") ~> (Done /\ ret.kind = "return")

\* the recursion on a matrix of dimension n >= 3 has reached dimension 1 with
\* n - 1 invocations waiting
C14_Witness ==
    /\ call.fn = "lift_for_SL"
    /\ Dim(call.g) >= 3
    /\ arg # <<>>
    /\ Dim(arg) = 1
    /\ Len(frames) = Dim(call.g) - 1

\* the base lift is called within its contract with m >= 2
ValidProperGamma1Call == ValidGamma1Call /\ call.m >= 2

\* C15 as stated: the bottom row (c', d') the base lift returns is, as
\* integers, the pair (c2, d2) of CRT residues, for every valid input with
\* m >= 2
C15_AsStated ==
    ValidProperGamma1Call =>
        /\ ret.kind = "return"
        /\ <<ret.val[3], ret.val[4]>> =
               bottom_row_residues(call.g[3], call.g[4], call.m, call.n)

\* C15 as amended: the bottom row the base lift returns is the bottom row of
\* the elementary lift, which the top-row correction leaves as it is; it is
\* congruent to (c2, d2) modulo m * n, and it is (c2, d2) exactly when
\* gcd(c2, d2) = 1
C15_BottomRowOfElementaryLift ==
    ValidProperGamma1Call =>
        LET cd2 == bottom_row_residues(call.g[3], call.g[4], call.m, call.n)
            l == ElementaryLift(call.g, call.m, call.n)
        IN  /\ ret.kind = "return"
            /\ <<ret.val[3], ret.val[4]>> = <<l[3], l[4]>>
            /\ (ret.val[3] - cd2[1]) % (call.m * call.n) = 0
            /\ (ret.val[4] - cd2[2]) % (call.m * call.n) = 0
            /\ <<ret.val[3], ret.val[4]>> = cd2 <=> gcd(cd2[1], cd2[2]) = 1

\* a lift whose residues (c2, d2) have a common factor: its bottom row is not
\* (c2, d2), and its top row was corrected with r # 0
C15_Witness ==
    /\ ValidProperGamma1Call
    /\ LET cd2 == bottom_row_residues(call.g[3], call.g[4], call.m, call.n)
           l == ElementaryLift(call.g, call.m, call.n)
       IN  /\ gcd(cd2[1], cd2[2]) # 1
           /\ top_row_shift(l[1], l[2], call.g[1], call.g[2], call.m) # 0
           /\ ret.kind = "return"
           /\ <<ret.val[3], ret.val[4]>> # cd2
           /\ <<ret.val[3], ret.val[4]>> = <<l[3], l[4]>>

\* lift_for_SL(A, N) runs, or has run, on a matrix with det(A) = 1 modulo N
SLContract ==
    /\ call.fn = "lift_for_SL"
    /\ Det(call.g) % call.n = 1 % call.n

\* the recursion of lift_for_SL has reached dimension 1: every invocation on
\* a dimension >= 2, that is every recursive step of the call, has computed
\* its locals and waits in frames
AllStepsTaken ==
    /\ call.fn = "lift_for_SL"
    /\ arg # <<>>
    /\ Dim(arg) = 1

Unimodular(M) == Det(M) \in {1, 0 - 1}

\* C16 as stated, for N >= 2: in every recursive step on an input with
\* det(A) = 1 modulo N, each of W, X and the adjusted A' has determinant +1
\* or -1
C16_AsStated ==
    (SLContract /\ call.n >= 2) =>
        \A i \in 1..Len(frames) :
            /\ Unimodular(frames[i].W)
            /\ Unimodular(frames[i].X)
            /\ Unimodular(frames[i].Ap)

\* C16 as amended: in every recursive step on an input with det(A) = 1 modulo
\* N, W (the identity with W[0,0] = b, W[1,0] = b - 1, W[0,1] = 1) and X (the
\* identity with X[0,1] = -a_1) have determinant exactly 1, and the adjusted
\* A' has determinant a_0 * ... * a_(n-1) = det(A), which is 1 modulo N: A'
\* is unimodular over the integers only when det(A) is 1 or -1
C16_SpecialMatrices ==
    (AllStepsTaken /\ SLContract) =>
        \A i \in 1..Len(frames) :
            LET f == frames[i]
            IN  /\ f.W[1][1] = prod(Tail(f.a))
                /\ f.W[2][1] = prod(Tail(f.a)) - 1
                /\ f.W[1][2] = 1
                /\ Det(f.W) = 1
                /\ f.X[1][2] = 0 - f.a[2]
                /\ Det(f.X) = 1
                /\ f.Ap[1][1] = 1
                /\ f.Ap[2][1] = 1 - f.a[1]
                /\ f.Ap[2][2] = f.a[1] * f.a[2]
                /\ Det(f.Ap) = prod(f.a)
                /\ Det(f.Ap) = Det(call.g)
                /\ Det(f.Ap) % call.n = 1 % call.n
                /\ Unimodular(f.Ap) <=> Unimodular(call.g)

\* the second recursive step on a matrix whose determinant is 1 modulo
\* N >= 2 and neither 1 nor -1: W and X have determinant 1, A' has not
C16_Witness ==
    /\ AllStepsTaken
    /\ SLContract
    /\ call.n >= 2
    /\ ~Unimodular(call.g)
    /\ Len(frames) >= 2
    /\ Det(frames[2].W) = 1
    /\ Det(frames[2].X) = 1
    /\ ~Unimodular(frames[2].Ap)

\* C17: in lift_for_SL, after the sign normalization (U replaced by
\* diag(-1, 1, ..., 1) * U when det(U) = -1, V by V * diag(-1, 1, ..., 1) when
\* det(V) = -1) both U and V have determinant exactly 1, and the recomputed
\* D = U * A * V is diagonal with a_0 * ... * a_(n-1) = det(A)
C17_SignNormalization ==
    AllStepsTaken =>
        \A i \in 1..Len(frames) :
            LET f == frames[i]
            IN  /\ Det(f.U) = 1
                /\ Det(f.V) = 1
                /\ f.D = MatMul(MatMul(f.U, f.A), f.V)
                /\ IsDiagonal(f.D)
                /\ \A j \in 1..Dim(f.A) : f.a[j] = f.D[j][j]
                /\ prod(f.a) = Det(f.A)

\* a step on a matrix of positive determinant where smith_form returned both
\* U and V of determinant -1, and both were normalized
C17_Witness ==
    /\ AllStepsTaken
    /\ \E i \in 1..Len(frames) :
          /\ Det(frames[i].A) > 0
          /\ Det(smith_form(frames[i].A).U) = 0 - 1
          /\ Det(smith_form(frames[i].A).V) = 0 - 1
          /\ frames[i].U = MatMul(sign_diag(Dim(frames[i].A)), smith_form(frames[i].A).U)
          /\ frames[i].V = MatMul(smith_form(frames[i].A).V, sign_diag(Dim(frames[i].A)))
          /\ Det(frames[i].U) = 1
          /\ Det(frames[i].V) = 1
          /\ prod(frames[i].a) = Det(frames[i].A)

\* C18: lift_for_SL(A, N) returns a matrix of determinant exactly 1 for every
\* square integer matrix A of dimension n >= 1 and every N, whether or not
\* det(A) = 1 modulo N, and on a 1 x 1 matrix it returns the identity
\* whatever the entry of A is
C18_DeterminantOneWithoutContract ==
    (call.fn = "lift_for_SL" /\ Done) =>
        /\ ret.kind = "return"
        /\ Dim(ret.val) = Dim(call.g)
        /\ DetIs(ret.val, 1)
        /\ Dim(call.g) = 1 => ret.val = identity_matrix(1)

\* a lift of a 3 x 3 matrix whose determinant is not 1 modulo N: it has
\* determinant 1 and is not congruent to the matrix modulo N
C18_Witness ==
    /\ call.fn = "lift_for_SL"
    /\ Done
    /\ Dim(call.g) = 3
    /\ Det(call.g) % call.n # 1 % call.n
    /\ ret.kind = "return"
    /\ DetIs(ret.val, 1)
    /\ ~CongruentMod(ret.val, call.g, call.n)

\* the base lift is called with m >= 2 and n not coprime to m, on a matrix of
\* determinant 1 modulo m
NonCoprimeCall ==
    /\ call.fn = "lift_to_gamma1"
    /\ call.m >= 2
    /\ ~Coprime(call.m, call.n)
    /\ DetCongruent(call.g, call.m)

\* C19: when m and n are not coprime (m >= 2, ad - bc = 1 modulo m) the base
\* lift returns no wrong matrix: a CRT step fails with an error when
\* gcd(m, n) does not divide c or does not divide d - 1, and otherwise the
\* matrix returned has determinant exactly 1, is congruent to (a, b, c, d)
\* modulo m and is upper unitriangular modulo n
C19_NonCoprimeModuli ==
    NonCoprimeCall =>
        IF \/ call.g[3] % gcd(call.m, call.n) # 0
           \/ (call.g[4] - 1) % gcd(call.m, call.n) # 0
        THEN ret = Raise("ValueError", CrtMsg, <<call.m, call.n>>)
        ELSE /\ ret.kind = "return"
             /\ Det2Is(ret.val, 1)
             /\ \A i \in 1..4 : (ret.val[i] - call.g[i]) % call.m = 0
             /\ (ret.val[1] - 1) % call.n = 0
             /\ ret.val[3] % call.n = 0
             /\ (ret.val[4] - 1) % call.n = 0

\* a lift at two different moduli with a common factor, of a matrix that is
\* not upper unitriangular modulo n
C19_Witness ==
    /\ NonCoprimeCall
    /\ call.m # call.n
    /\ (call.g[1] - 1) % call.n # 0
    /\ ret.kind = "return"
    /\ Det2Is(ret.val, 1)
    /\ \A i \in 1..4 : (ret.val[i] - call.g[i]) % call.m = 0
    /\ (ret.val[1] - 1) % call.n = 0

====
